---- MODULE Spec2Model ----
(***************************************************************************)
(* InferSim: the discrete-event engine of src/src/sim.rs with the worker   *)
(* timelines of src/src/workers.rs, the job types of src/src/types.rs and  *)
(* the scheduling policies of src/src/sim/schedulers.rs.                   *)
(*                                                                         *)
(* Times and durations are f64 in the source; the model uses naturals.     *)
(* Messages published while a handler runs are deferred by the message bus *)
(* and delivered, in publication order, after the running handler returns; *)
(* the variable bus is that queue of pending deliveries.                   *)
(***************************************************************************)
EXTENDS Integers, Sequences, FiniteSets, TLC

\* ---------------------------------------------------------------- bounds
MaxJobs == 3
MaxLen == 1
MaxBudget == 1
MaxDelay == 1
MaxPer == 2
MaxBatchSize == 2
MaxWorkers == 2
DeepJobs == 4
MaxTime == 2
MaxPulls == 3
MaxBurst == 2
MaxModels == 2
TapeLen == 2
MaxDraw == 2
MaxWhen == 2
MaxSize == 2
MaxStarts == 3
QSteps == 2
MaxLow == 1
MaxWidth == 2
MaxOffset == 1
MaxFactor == 2
MaxCalls == 2

\* the step of the base ids that from_config hands to the models of an array
IdStride == 1000000

\* f64::MAX, the size of the probe interval of Timeline::idle
Inf == 1000
\* Option::None for a deadline or a budget
None == -1

VARIABLES processed_events, future_events, time, pending_jobs, workers,
          next_wakeup, incoming, scheduler, until, bus, pc, panicked,
          pushed, emitted, replay

vars == <<processed_events, future_events, time, pending_jobs, workers,
          next_wakeup, incoming, scheduler, until, bus, pc, panicked,
          pushed, emitted, replay>>

\* ---------------------------------------------------------------- helpers
Min2(a, b) == IF a < b THEN a ELSE b

SatSub(a, b) == IF a >= b THEN a - b ELSE 0

Last(s) == s[Len(s)]

InsertAt(s, idx, x) == SubSeq(s, 1, idx) \o <<x>> \o SubSeq(s, idx + 1, Len(s))

RemoveAt(s, idx) == SubSeq(s, 1, idx) \o SubSeq(s, idx + 2, Len(s))

RECURSIVE SeqMax(_)
SeqMax(s) == IF Len(s) = 1 THEN s[1]
             ELSE LET a == SeqMax(SubSeq(s, 1, Len(s) - 1)) b == Last(s)
                  IN IF a < b THEN b ELSE a

RECURSIVE SeqMin(_)
SeqMin(s) == IF Len(s) = 1 THEN s[1]
             ELSE LET a == SeqMin(SubSeq(s, 1, Len(s) - 1)) b == Last(s)
                  IN IF b < a THEN b ELSE a

\* ---------------------------------------------------------------- types.rs
\* TimeInterval(start, size) is <<start, size>>
lb(iv) == iv[1]

ub(iv) == iv[1] + iv[2]

IvIsEmpty(iv) == iv[2] = 0

is_disjoint(a, b) == IvIsEmpty(a) \/ IvIsEmpty(b) \/ lb(a) >= ub(b) \/ lb(b) >= ub(a)

overlap(a, b) == ~is_disjoint(a, b)

\* derived Ord of TimeInterval: lexicographic on (start, size)
IvLess(a, b) == a[1] < b[1] \/ (a[1] = b[1] /\ a[2] < b[2])

missed_deadline(job, now) == IF job.deadline = None THEN FALSE ELSE job.deadline >= now

\* the budget is taken as the deadline, without the admission time
into_job_relative(ij, admitted) ==
    [id |-> ij.id, admitted |-> admitted, length |-> ij.length, q |-> ij.q,
     deadline |-> ij.budget]

into_job(ij, admitted) ==
    [id |-> ij.id, admitted |-> admitted, length |-> ij.length, q |-> ij.q,
     deadline |-> IF ij.budget = None THEN None ELSE admitted + ij.budget]

NoBatch == [id |-> 0 - 1, interval |-> <<0, 0>>, done |-> <<>>, past_due |-> <<>>]

\* ---------------------------------------------------------------- messages
Rank(kind) ==
    CASE kind = "WakeUpSchedulerController" -> 0
      [] kind = "WakeUpWorkerController" -> 1
      [] kind = "WakeUpIncomingController" -> 2
      [] kind = "IncomingJobs" -> 3
      [] kind = "PastDue" -> 4
      [] kind = "BatchStart" -> 5
      [] kind = "BatchDone" -> 6

Msg(kind) == [kind |-> kind, jobs |-> <<>>, which |-> 0, when |-> 0, batch |-> NoBatch]

MsgIncomingJobs(jobs) == [Msg("IncomingJobs") EXCEPT !.jobs = jobs]

MsgPastDue(jobs) == [Msg("PastDue") EXCEPT !.jobs = jobs]

MsgBatchStart(which, when, jobs) ==
    [Msg("BatchStart") EXCEPT !.which = which, !.when = when, !.jobs = jobs]

MsgBatchDone(batch) == [Msg("BatchDone") EXCEPT !.batch = batch]

\* derived Ord of Event: time first, then the variant of the message
EventLE(a, b) == a.time < b.time \/ (a.time = b.time /\ Rank(a.message.kind) <= Rank(b.message.kind))

\* std::cmp::Reverse: a <= b iff the wrapped b <= the wrapped a
RevLE(a, b) == EventLE(b, a)

\* ---------------------------------------------------------------- BinaryHeap
\* the heap array is 0-based in the source: position p is h[p + 1]
RECURSIVE sift_up(_, _, _, _)
sift_up(h, start, pos, elt) ==
    IF pos > start
    THEN LET parent == (pos - 1) \div 2
         IN IF RevLE(elt, h[parent + 1])
            THEN [h EXCEPT ![pos + 1] = elt]
            ELSE sift_up([h EXCEPT ![pos + 1] = h[parent + 1]], start, parent, elt)
    ELSE [h EXCEPT ![pos + 1] = elt]

RECURSIVE sift_down_to_bottom(_, _, _, _)
sift_down_to_bottom(h, pos, child, elt) ==
    LET end == Len(h)
    IN IF child <= SatSub(end, 2)
       THEN LET c == IF RevLE(h[child + 1], h[child + 2]) THEN child + 1 ELSE child
            IN sift_down_to_bottom([h EXCEPT ![pos + 1] = h[c + 1]], c, 2 * c + 1, elt)
       ELSE IF child = end - 1
            THEN sift_up([h EXCEPT ![pos + 1] = h[child + 1]], 0, child, elt)
            ELSE sift_up(h, 0, pos, elt)

HeapPush(h, e) == sift_up(Append(h, e), 0, Len(h), e)

\* the heap that remains after BinaryHeap::pop (the popped item is h[1])
HeapPop(h) ==
    IF Len(h) = 1 THEN <<>>
    ELSE LET last == Last(h)
             d == [SubSeq(h, 1, Len(h) - 1) EXCEPT ![1] = last]
         IN sift_down_to_bottom(d, 0, 1, last)

\* ---------------------------------------------------------------- workers.rs
\* binary search over the sorted timeline: Ok(idx) on an equal element,
\* Err(idx) with the insertion point otherwise (0-based)
binary_search(tl, iv) ==
    IF \E i \in DOMAIN tl : tl[i] = iv
    THEN [ok |-> TRUE, idx |-> (CHOOSE i \in DOMAIN tl : tl[i] = iv) - 1]
    ELSE [ok |-> FALSE, idx |-> Cardinality({i \in DOMAIN tl : IvLess(tl[i], iv)})]

TimelineAdd(tl, pair) == InsertAt(tl, binary_search(tl, pair).idx, pair)

TimelineRemove(tl, pair) ==
    LET r == binary_search(tl, pair)
    IN IF r.ok THEN RemoveAt(tl, r.idx) ELSE tl

occupied(tl, interval) ==
    LET r == binary_search(tl, interval)
        at(i) == IF i >= 0 /\ i < Len(tl) /\ overlap(tl[i + 1], interval)
                 THEN <<tl[i + 1]>> ELSE <<>>
    IN IF r.ok THEN <<tl[r.idx + 1]>>
       ELSE at(r.idx) \o (IF r.idx >= 1 THEN at(r.idx - 1) ELSE <<>>)

idle(tl, since) == occupied(tl, <<since, Inf>>) = <<>>

\* ---------------------------------------------------------------- batcher.rs
\* off by one in the range that is drained: one more job leaves the queue than the batch holds
batch_pop_front_off_by_one(q, size) ==
    LET n == Min2(Len(q), size)
    IN [batch |-> SubSeq(q, 1, n), rest |-> SubSeq(q, n + 2, Len(q))]

\* the size limit is off by one: a batch can hold one job more than the worker takes
batch_pop_front_oversize(q, size) ==
    LET n == Min2(Len(q), size + 1)
    IN [batch |-> SubSeq(q, 1, n), rest |-> SubSeq(q, n + 1, Len(q))]

\* the batch is taken from the back of the queue
batch_pop_back(q, size) ==
    LET n == Min2(Len(q), size)
    IN [batch |-> SubSeq(q, Len(q) - n + 1, Len(q)), rest |-> SubSeq(q, 1, Len(q) - n)]

batch_pop_front(q, size) ==
    LET n == Min2(Len(q), size)
    IN [batch |-> SubSeq(q, 1, n), rest |-> SubSeq(q, n + 1, Len(q))]

Swap(s, i, j) == [s EXCEPT ![i + 1] = s[j + 1], ![j + 1] = s[i + 1]]

\* SliceRandom::partial_shuffle: for i in (end..len).rev() swap(i, gen_index(i + 1));
\* the set of results [s, draws] the generator can produce: s is the slice, draws the
\* calls of gen_index in order, each with its result j and its bound i + 1
RECURSIVE partial_shuffle_from(_, _, _)
partial_shuffle_from(s, i, end) ==
    IF i < end THEN {[s |-> s, draws |-> <<>>]}
    ELSE UNION {{[s |-> r.s, draws |-> <<[j |-> j, bound |-> i + 1]>> \o r.draws] :
                    r \in partial_shuffle_from(Swap(s, i, j), i - 1, end)} : j \in 0..i}

partial_shuffle(s, amount) ==
    LET end == IF amount >= Len(s) THEN 0 ELSE Len(s) - amount
    IN partial_shuffle_from(s, Len(s) - 1, end)

batch_pop_front_random(q, size) ==
    LET batch_size == Min2(Len(q), size)
    IN IF batch_size = 0 THEN {[batch |-> <<>>, rest |-> q, draws |-> <<>>]}
       ELSE {[batch |-> batch_pop_front(r.s, batch_size).batch,
              rest |-> batch_pop_front(r.s, batch_size).rest,
              draws |-> r.draws] : r \in partial_shuffle(q, batch_size)}

\* ---------------------------------------------------------------- sim/schedulers.rs
get_batch(mode, q, size) ==
    IF mode = "random" THEN batch_pop_front_random(q, size)
    ELSE {[batch |-> batch_pop_front(q, size).batch,
           rest |-> batch_pop_front(q, size).rest, draws |-> <<>>]}

\* drain_available_worker, from worker index i on; the set of outcomes
\* [starts: the BatchStart messages published, rest: what is left of q,
\*  draws: the random draws made]
RECURSIVE drain_from(_, _, _, _, _)
drain_from(now, ws, i, q, mode) ==
    IF i > Len(ws) THEN {[starts |-> <<>>, rest |-> q, draws |-> <<>>]}
    ELSE IF idle(ws[i].timeline, now)
         THEN UNION {
                IF r.batch = <<>>
                THEN {[starts |-> <<>>, rest |-> r.rest, draws |-> r.draws]}
                ELSE {[starts |-> <<MsgBatchStart(ws[i].id, now, r.batch)>> \o d.starts,
                       rest |-> d.rest, draws |-> r.draws \o d.draws]
                         : d \in drain_from(now, ws, i + 1, r.rest, mode)}
                : r \in get_batch(mode, q, ws[i].batch_size)}
         ELSE drain_from(now, ws, i + 1, q, mode)

drain_available_worker(now, ws, q, mode) == drain_from(now, ws, 1, q, mode)

\* the FIFO policy drains with the shuffling batcher of the Random policy
FIFO_next_batch_shuffled(now, ws, pending) ==
    {[starts |-> d.starts, pending |-> d.rest, draws |-> d.draws] :
        d \in drain_available_worker(now, ws, pending, "random")}

\* the FIFO policy only looks at the first worker
FIFO_next_batch_first_worker(now, ws, pending) ==
    {[starts |-> d.starts, pending |-> d.rest, draws |-> d.draws] :
        d \in drain_available_worker(now, SubSeq(ws, 1, 1), pending, "fifo")}

FIFO_next_batch(now, ws, pending) ==
    {[starts |-> d.starts, pending |-> d.rest, draws |-> d.draws] :
        d \in drain_available_worker(now, ws, pending, "fifo")}

Random_next_batch(now, ws, pending) ==
    {[starts |-> d.starts, pending |-> d.rest, draws |-> d.draws] :
        d \in drain_available_worker(now, ws, pending, "random")}

\* the sort key of My: deadline - length.quantile(percentile)
latest_start(job) == job.deadline - job.q

\* sort_by_cached_key is a stable sort
RECURSIVE sort_by_latest_start(_)
sort_by_latest_start(s) ==
    IF s = <<>> THEN <<>>
    ELSE LET sorted == sort_by_latest_start(SubSeq(s, 1, Len(s) - 1))
             x == Last(s)
             n == Cardinality({i \in DOMAIN sorted : latest_start(sorted[i]) <= latest_start(x)})
         IN InsertAt(sorted, n, x)

\* the best-effort jobs are never drained: they all stay pending
My_next_batch_deadline_only(now, ws, pending) ==
    LET has_deadline(j) == j.deadline # None
        no_deadline(j) == j.deadline = None
        with_deadline == sort_by_latest_start(SelectSeq(pending, has_deadline))
        best_effort == SelectSeq(pending, no_deadline)
    IN {[starts |-> d1.starts, pending |-> d1.rest \o best_effort, draws |-> d1.draws] :
           d1 \in drain_available_worker(now, ws, with_deadline, "fifo")}

My_next_batch(now, ws, pending) ==
    LET has_deadline(j) == j.deadline # None
        no_deadline(j) == j.deadline = None
        with_deadline == sort_by_latest_start(SelectSeq(pending, has_deadline))
        best_effort == SelectSeq(pending, no_deadline)
    IN {[starts |-> d1.starts \o d2.starts, pending |-> d1.rest \o d2.rest,
         draws |-> d1.draws \o d2.draws] :
           d1 \in drain_available_worker(now, ws, with_deadline, "fifo"),
           d2 \in drain_available_worker(now, ws, best_effort, "fifo")}

next_batch(sched, now, ws, pending) ==
    CASE sched.type = "FIFO" -> FIFO_next_batch(now, ws, pending)
      [] sched.type = "Random" -> Random_next_batch(now, ws, pending)
      [] sched.type = "My" -> My_next_batch(now, ws, pending)

\* a generator seeded from entropy: any draw is possible whatever the seed
rng_accepts_any(sched, draws) == TRUE

\* the generator of the Random policy.  A scheduler with a tape has a seeded
\* generator: its k-th output is the k-th entry of the tape (the tape repeats), and
\* gen_index(bound) is that output modulo bound.  Without a tape the seed is left
\* open and every draw is possible.
rng_accepts(sched, draws) ==
    IF "tape" \in DOMAIN sched
    THEN \A k \in DOMAIN draws :
             draws[k].j = sched.tape[((sched.pos + k - 1) % Len(sched.tape)) + 1] % draws[k].bound
    ELSE TRUE

\* the state of the generator after the draws
rng_advance(sched, draws) ==
    IF "tape" \in DOMAIN sched
    THEN [sched EXCEPT !.pos = (sched.pos + Len(draws)) % Len(sched.tape)]
    ELSE sched

\* Scheduler::on_wake_up: the policies define no behaviour for it
policy_on_wake_up(pending) == [starts |-> <<>>, pending |-> pending]

\* ---------------------------------------------------------------- sim.rs
\* impl From<msg::BatchStart> for Batch (the batch must not be empty)
BatchFrom(bs) ==
    LET lens == [i \in DOMAIN bs.jobs |-> bs.jobs[i].length]
        latency == SeqMax(lens)
        finished == bs.when + latency
        missed(j) == missed_deadline(j, finished)
        not_missed(j) == ~missed_deadline(j, finished)
    IN [id |-> bs.which, interval |-> <<bs.when, latency>>,
        done |-> SelectSeq(bs.jobs, not_missed),
        past_due |-> SelectSeq(bs.jobs, missed)]

\* a delivery of the message bus: handler h receives message m
Delivery(h, m) == [h |-> h, time |-> 0, m |-> m]

\* PostEvent::post_event: a private message for SimulationController::new_event
post_event(t, m) == <<[h |-> "new_event", time |-> t, m |-> m]>>

\* nuts::publish: one delivery per subscriber, in subscription order
publish(m) ==
    CASE m.kind = "WakeUpSchedulerController" -> <<Delivery("SchedulerController::on_wake_up", m)>>
      [] m.kind = "WakeUpWorkerController" -> <<>>
      [] m.kind = "WakeUpIncomingController" -> <<Delivery("IncomingController::run", m)>>
      [] m.kind = "IncomingJobs" -> <<Delivery("SchedulerController::on_incoming_jobs", m)>>
      [] m.kind = "PastDue" -> <<>>
      [] m.kind = "BatchStart" -> <<Delivery("WorkerController::on_batch_start", m)>>
      [] m.kind = "BatchDone" -> <<Delivery("WorkerController::on_batch_done", m),
                                   Delivery("SchedulerController::on_batch_done", m)>>

RECURSIVE publish_all(_)
publish_all(ms) == IF ms = <<>> THEN <<>> ELSE publish(Head(ms)) \o publish_all(Tail(ms))

\* SchedulerController::schedule_wake_up
schedule_wake_up(pending, nw) ==
    LET has_deadline(j) == j.deadline # None
        withd == SelectSeq(pending, has_deadline)
        t == SeqMin([i \in DOMAIN withd |-> withd[i].deadline])
    IN IF withd # <<>> /\ t # nw
       THEN [next_wakeup |-> t, posts |-> post_event(t, Msg("WakeUpSchedulerController"))]
       ELSE [next_wakeup |-> nw, posts |-> <<>>]

is_end ==
    IF until.type = "Time" THEN time > until.max ELSE future_events = <<>>

Handling(h) == pc = "run" /\ ~panicked /\ bus # <<>> /\ Head(bus).h = h

\* SimulationController::step, called by Simulator::run while !is_end
Step ==
    /\ pc = "run" /\ ~panicked /\ bus = <<>> /\ ~is_end
    /\ IF future_events # <<>>
       THEN LET event == future_events[1]
            IN /\ future_events' = HeapPop(future_events)
               /\ time' = event.time
               /\ processed_events' = Append(processed_events, event)
               /\ bus' = publish(event.message)
       ELSE UNCHANGED <<future_events, time, processed_events, bus>>
    /\ UNCHANGED <<pending_jobs, workers, next_wakeup, incoming, scheduler, until,
                   pc, panicked, pushed, emitted, replay>>

\* Simulator::run returns
RunReturn ==
    /\ pc = "run" /\ ~panicked /\ bus = <<>> /\ is_end
    /\ pc' = "done"
    /\ UNCHANGED <<processed_events, future_events, time, pending_jobs, workers,
                   next_wakeup, incoming, scheduler, until, bus, panicked, pushed, emitted, replay>>

\* SimulationController::new_event
NewEvent ==
    /\ Handling("new_event")
    /\ future_events' = HeapPush(future_events,
           [time |-> Head(bus).time, message |-> Head(bus).m, seq |-> pushed])
    /\ pushed' = pushed + 1
    /\ bus' = Tail(bus)
    /\ UNCHANGED <<processed_events, time, pending_jobs, workers, next_wakeup, incoming,
                   scheduler, until, pc, panicked, emitted, replay>>

\* ---------------------------------------------------------------- incoming.rs
\* the jobs an incoming stream can carry: lengths sampled from the configured
\* distribution, q the quantile of that distribution at the policy's percentile
JobShapes(cfg) ==
    {[length |-> l, q |-> l + x, budget |-> b] :
        l \in cfg.lengths, x \in cfg.qextra, b \in cfg.budgets}

\* IncomingAbsolute::next: the states of the stream after pulling its next item
Pull(inc) ==
    {[inc EXCEPT !.peek = "end", !.t = 0, !.jobs = <<>>]}
    \cup
    UNION {
      {[inc EXCEPT !.peek = "item", !.abs = inc.abs + delay, !.t = inc.abs + delay,
                   !.next_id = inc.next_id + n,
                   !.jobs = [i \in 1..n |-> [id |-> inc.next_id + i - 1,
                                             length |-> f[i].length, q |-> f[i].q,
                                             budget |-> f[i].budget]]]
         : f \in [1..n -> JobShapes(inc.cfg)]}
      : delay \in inc.cfg.delays,
        n \in {k \in inc.cfg.pers : inc.next_id + k <= inc.cfg.max_jobs}}

\* Peekable::peek
Peek(inc) == IF inc.peek = "unpolled" THEN Pull(inc) ELSE {inc}

\* no wake-up is scheduled for the arrivals that are still to come
IncomingRun_no_rewake ==
    /\ Handling("IncomingController::run")
    /\ \E p1 \in Peek(incoming) :
          IF p1.peek = "item" /\ time >= p1.t
          THEN \E p2 \in Pull(p1) :
                  /\ incoming' = p2
                  /\ bus' = Tail(bus) \o post_event(p1.t, MsgIncomingJobs(p1.jobs))
          ELSE /\ incoming' = p1
               /\ bus' = Tail(bus) \o (IF p1.peek = "item"
                                       THEN post_event(p1.t, Msg("WakeUpIncomingController"))
                                       ELSE <<>>)
    /\ UNCHANGED <<processed_events, future_events, time, pending_jobs, workers,
                   next_wakeup, scheduler, until, pc, panicked, pushed, emitted, replay>>

\* IncomingController::run
IncomingRun ==
    /\ Handling("IncomingController::run")
    /\ \E p1 \in Peek(incoming) :
          IF p1.peek = "item" /\ time >= p1.t
          THEN \E p2 \in Pull(p1) :
                  /\ incoming' = p2
                  /\ bus' = Tail(bus) \o post_event(p1.t, MsgIncomingJobs(p1.jobs))
                               \o (IF p2.peek = "item"
                                   THEN post_event(p2.t, Msg("WakeUpIncomingController"))
                                   ELSE <<>>)
          ELSE /\ incoming' = p1
               /\ bus' = Tail(bus) \o (IF p1.peek = "item"
                                       THEN post_event(p1.t, Msg("WakeUpIncomingController"))
                                       ELSE <<>>)
    /\ UNCHANGED <<processed_events, future_events, time, pending_jobs, workers,
                   next_wakeup, scheduler, until, pc, panicked, pushed, emitted, replay>>

\* ---------------------------------------------------------------- incoming.rs: the generators
\* A model of the configuration is [type, d, n, bursty, budget]: OneBatch {delay d,
\* n_jobs n} or Rate {unit d, per n, bursty}.  A stream item is [time, first, n,
\* budget]: the batch of the n jobs with ids first .. first + n - 1, released at the
\* absolute time of its stream; base records the base id of the model it came from.
\* The lengths of the jobs are samples and left out.
NoItem == [time |-> 0, first |-> 0, n |-> 0, budget |-> None, base |-> 0]

\* the delays a model can draw: the fixed delay or unit, or unit * -ln(c) when bursty
delays_of(cfg) == IF cfg.type = "Rate" /\ cfg.bursty THEN 1..MaxBurst ELSE {cfg.d}

\* IncomingJobConfig::as_iter followed by into_absolute
as_iter(cfg, base_id) == [cfg |-> cfg, base |-> base_id, taken |-> 0, spent |-> FALSE, abs |-> 0]

\* the batch is repeated for ever instead of being given once
one_batch_next_repeated(c) ==
    {[some |-> TRUE,
      item |-> [time |-> c.abs + c.cfg.d, first |-> c.base, n |-> c.cfg.n,
                budget |-> c.cfg.budget, base |-> c.base],
      tail |-> [c EXCEPT !.abs = c.abs + c.cfg.d]]}

\* one_batch: a single item with the ids base_id .. base_id + n_jobs - 1
one_batch_next(c) ==
    IF c.spent THEN {[some |-> FALSE, item |-> NoItem, tail |-> c]}
    ELSE {[some |-> TRUE,
           item |-> [time |-> c.abs + c.cfg.d, first |-> c.base, n |-> c.cfg.n,
                     budget |-> c.cfg.budget, base |-> c.base],
           tail |-> [c EXCEPT !.spent = TRUE, !.abs = c.abs + c.cfg.d]]}

\* the first batch is released at once, the following ones after the delay
rate_next_first_at_once(c) ==
    {[some |-> TRUE,
      item |-> [time |-> IF c.taken = 0 THEN c.abs ELSE c.abs + dl,
                first |-> c.base + c.taken, n |-> c.cfg.n,
                budget |-> c.cfg.budget, base |-> c.base],
      tail |-> [c EXCEPT !.taken = c.taken + c.cfg.n,
                         !.abs = IF c.taken = 0 THEN c.abs ELSE c.abs + dl]]
       : dl \in delays_of(c.cfg)}

\* rate: every item takes the next per ids of base_id..
rate_next(c) ==
    {[some |-> TRUE,
      item |-> [time |-> c.abs + dl, first |-> c.base + c.taken, n |-> c.cfg.n,
                budget |-> c.cfg.budget, base |-> c.base],
      tail |-> [c EXCEPT !.taken = c.taken + c.cfg.n, !.abs = c.abs + dl]]
       : dl \in delays_of(c.cfg)}

\* IncomingAbsolute::next of one model
child_next(c) == IF c.cfg.type = "OneBatch" THEN one_batch_next(c) ELSE rate_next(c)

\* the merge orders by descending time
kmerge_greater(a, b) == a.head.time > b.head.time

\* itertools kmerge_by(|a, b| a.0 < b.0): a heap of [head, tail], 0-based in the source
kmerge_less(a, b) == a.head.time < b.head.time

RECURSIVE kmerge_sift_down(_, _)
kmerge_sift_down(heap, pos) ==
    LET child == 2 * pos + 1
    IN IF child + 1 < Len(heap)
       THEN LET c == IF kmerge_less(heap[child + 2], heap[child + 1]) THEN child + 1 ELSE child
            IN IF ~kmerge_less(heap[c + 1], heap[pos + 1]) THEN heap
               ELSE kmerge_sift_down(Swap(heap, pos, c), c)
       ELSE IF child + 1 = Len(heap) /\ kmerge_less(heap[child + 1], heap[pos + 1])
            THEN Swap(heap, pos, child)
            ELSE heap

RECURSIVE kmerge_heapify_from(_, _)
kmerge_heapify_from(heap, i) ==
    IF i < 0 THEN heap ELSE kmerge_heapify_from(kmerge_sift_down(heap, i), i - 1)

kmerge_heapify(heap) == kmerge_heapify_from(heap, (Len(heap) \div 2) - 1)

\* HeadTail::new for each model in turn: the models without a first item are dropped
RECURSIVE head_tails(_)
head_tails(cs) ==
    IF cs = <<>> THEN {<<>>}
    ELSE {(IF r.some THEN <<[head |-> r.item, tail |-> r.tail]>> ELSE <<>>) \o rest :
             r \in child_next(Head(cs)), rest \in head_tails(Tail(cs))}

\* KMergeBy::next: the head of heap[0] is the result; heap[0] pulls its next head, or
\* is swap_removed when its model has ended; then sift_down(0)
kmerge_next(heap) ==
    IF heap = <<>> THEN {[some |-> FALSE, item |-> NoItem, heap |-> heap]}
    ELSE {[some |-> TRUE, item |-> heap[1].head,
           heap |-> kmerge_sift_down(
                        IF r.some THEN [heap EXCEPT ![1] = [head |-> r.item, tail |-> r.tail]]
                        ELSE [i \in 1..(Len(heap) - 1) |->
                                 IF i = 1 THEN Last(heap) ELSE heap[i]],
                        0)]
            : r \in child_next(heap[1].tail)}

\* from_config: a single model gets base id 0, the models of an array get the base
\* ids 0, IdStride, 2 * IdStride, .. and are merged by combined; the result is the
\* set of streams [kind, child, heap, cur_time] the random draws can give
from_config(cfg) ==
    IF cfg.kind = "Single"
    THEN {[kind |-> "Single", child |-> as_iter(cfg.models[1], 0), heap |-> <<>>, cur_time |-> 0]}
    ELSE {[kind |-> "Array", child |-> as_iter(cfg.models[1], 0),
           heap |-> kmerge_heapify(h), cur_time |-> 0]
            : h \in head_tails([i \in DOMAIN cfg.models |->
                                   as_iter(cfg.models[i], (i - 1) * IdStride)])}

\* Incoming::next: the next (delay, batch) of the stream; combined turns the absolute
\* times of the merged items back into delays
incoming_next(src) ==
    IF src.kind = "Single"
    THEN {[some |-> r.some,
           item |-> [delay |-> r.item.time - src.child.abs, first |-> r.item.first,
                     n |-> r.item.n, budget |-> r.item.budget, base |-> r.item.base],
           src |-> [src EXCEPT !.child = r.tail]] : r \in child_next(src.child)}
    ELSE {[some |-> r.some,
           item |-> [delay |-> r.item.time - src.cur_time, first |-> r.item.first,
                     n |-> r.item.n, budget |-> r.item.budget, base |-> r.item.base],
           src |-> [src EXCEPT !.heap = r.heap,
                               !.cur_time = IF r.some THEN r.item.time ELSE src.cur_time]]
            : r \in kmerge_next(src.heap)}

\* ---------------------------------------------------------------- controllers
\* Worker::batch_start: the assertion, then Timeline::add
\* the overlap assertion left out
batch_start_unchecked(w, batch) == w.id = batch.id

batch_start_ok(w, batch) == w.id = batch.id /\ occupied(w.timeline, batch.interval) = <<>>

\* WorkerController::on_batch_start
WorkerOnBatchStart ==
    /\ Handling("WorkerController::on_batch_start")
    /\ LET bs == Head(bus).m
       IN IF bs.jobs = <<>>
          THEN /\ panicked' = TRUE
               /\ UNCHANGED <<workers, bus>>
          ELSE LET batch == BatchFrom(bs)
                   w == workers[batch.id + 1]
               IN IF batch_start_ok(w, batch)
                  THEN /\ workers' = [workers EXCEPT ![batch.id + 1].timeline =
                                          TimelineAdd(w.timeline, batch.interval)]
                       /\ bus' = Tail(bus) \o post_event(ub(batch.interval), MsgBatchDone(batch))
                       /\ UNCHANGED panicked
                  ELSE /\ panicked' = TRUE
                       /\ UNCHANGED <<workers, bus>>
    /\ UNCHANGED <<processed_events, future_events, time, pending_jobs, next_wakeup,
                   incoming, scheduler, until, pc, pushed, emitted, replay>>

\* the worker controller also takes the head of the pending queue
WorkerOnBatchDone_pops_pending ==
    /\ Handling("WorkerController::on_batch_done")
    /\ LET batch == Head(bus).m.batch
       IN workers' = [workers EXCEPT ![batch.id + 1].timeline =
                          TimelineRemove(workers[batch.id + 1].timeline, batch.interval)]
    /\ pending_jobs' = IF pending_jobs = <<>> THEN <<>> ELSE Tail(pending_jobs)
    /\ bus' = Tail(bus)
    /\ UNCHANGED <<processed_events, future_events, time, next_wakeup,
                   incoming, scheduler, until, pc, panicked, pushed, emitted, replay>>

\* WorkerController::on_batch_done
WorkerOnBatchDone ==
    /\ Handling("WorkerController::on_batch_done")
    /\ LET batch == Head(bus).m.batch
       IN workers' = [workers EXCEPT ![batch.id + 1].timeline =
                          TimelineRemove(workers[batch.id + 1].timeline, batch.interval)]
    /\ bus' = Tail(bus)
    /\ UNCHANGED <<processed_events, future_events, time, pending_jobs, next_wakeup,
                   incoming, scheduler, until, pc, panicked, pushed, emitted, replay>>

\* SchedulerController::on_wake_up
SchedOnWakeUp ==
    /\ Handling("SchedulerController::on_wake_up")
    /\ LET missed(j) == missed_deadline(j, time)
           not_missed(j) == ~missed_deadline(j, time)
           past_due == SelectSeq(pending_jobs, missed)
           pending == SelectSeq(pending_jobs, not_missed)
           r == policy_on_wake_up(pending)
           sw == schedule_wake_up(r.pending, next_wakeup)
       IN /\ pending_jobs' = r.pending
          /\ next_wakeup' = sw.next_wakeup
          /\ emitted' = emitted \o r.starts
          /\ bus' = Tail(bus)
                    \o (IF past_due # <<>> THEN post_event(time, MsgPastDue(past_due)) ELSE <<>>)
                    \o publish_all(r.starts)
                    \o sw.posts
    /\ UNCHANGED <<processed_events, future_events, time, workers, incoming, scheduler,
                   until, pc, panicked, pushed, replay>>

\* SchedulerController::on_incoming_jobs
SchedOnIncomingJobs ==
    /\ Handling("SchedulerController::on_incoming_jobs")
    /\ LET msg == Head(bus).m
           admitted == [i \in DOMAIN msg.jobs |-> into_job(msg.jobs[i], time)]
           pending == pending_jobs \o admitted
           sw == schedule_wake_up(pending, next_wakeup)
       IN \E r \in next_batch(scheduler, time, workers, pending) :
             /\ rng_accepts(scheduler, r.draws)
             /\ scheduler' = rng_advance(scheduler, r.draws)
             /\ pending_jobs' = r.pending
             /\ next_wakeup' = sw.next_wakeup
             /\ emitted' = emitted \o r.starts
             /\ bus' = Tail(bus) \o sw.posts \o publish_all(r.starts)
    /\ UNCHANGED <<processed_events, future_events, time, workers, incoming,
                   until, pc, panicked, pushed, replay>>

\* SchedulerController::on_batch_done
SchedOnBatchDone ==
    /\ Handling("SchedulerController::on_batch_done")
    /\ \E r \in next_batch(scheduler, time, workers, pending_jobs) :
          /\ rng_accepts(scheduler, r.draws)
          /\ scheduler' = rng_advance(scheduler, r.draws)
          /\ pending_jobs' = r.pending
          /\ emitted' = emitted \o r.starts
          /\ bus' = Tail(bus) \o publish_all(r.starts)
    /\ UNCHANGED <<processed_events, future_events, time, workers, next_wakeup, incoming,
                   until, pc, panicked, pushed, replay>>

\* ---------------------------------------------------------------- the system
\* workers::from_config: ids 0.., the configured batch sizes, empty timelines
WorkersFrom(sizes) ==
    [i \in DOMAIN sizes |-> [id |-> i - 1, batch_size |-> sizes[i], timeline |-> <<>>]]

WorkerConfigs == UNION {[1..n -> 1..MaxBatchSize] : n \in 1..MaxWorkers}

Schedulers == {[type |-> "FIFO"], [type |-> "Random"], [type |-> "My"]}

NoEvents == [type |-> "NoEvents", max |-> 0]

IncomingConfigs ==
    {[lengths |-> 0..MaxLen, qextra |-> {0}, budgets |-> {None} \cup 0..MaxBudget,
      delays |-> 0..MaxDelay, pers |-> 1..MaxPer, max_jobs |-> MaxJobs]}

\* the three events seeded by Simulator::new
SeedEvents ==
    LET e(k, n) == [time |-> 0, message |-> Msg(k), seq |-> n]
    IN HeapPush(HeapPush(HeapPush(<<>>, e("WakeUpIncomingController", 0)),
                         e("WakeUpWorkerController", 1)),
                e("WakeUpSchedulerController", 2))

\* Simulator::new followed by the call of Simulator::run
InitSim(icfgs, wcfgs, scheds, untils) ==
    /\ processed_events = <<>>
    /\ future_events = SeedEvents
    /\ time = 0
    /\ pending_jobs = <<>>
    /\ workers \in {WorkersFrom(c) : c \in wcfgs}
    /\ next_wakeup = 0
    /\ incoming \in {[cfg |-> c, peek |-> "unpolled", t |-> 0, jobs |-> <<>>,
                      abs |-> 0, next_id |-> 0] : c \in icfgs}
    /\ scheduler \in scheds
    /\ until \in untils
    /\ bus = <<>>
    /\ pc = "run"
    /\ panicked = FALSE
    /\ pushed = 3
    /\ emitted = <<>>

\* a single run: nothing is replayed
NoReplay == [run |-> 0, first |-> <<>>]

InitWith(icfgs, wcfgs, scheds, untils) ==
    InitSim(icfgs, wcfgs, scheds, untils) /\ replay = NoReplay

Init == InitWith(IncomingConfigs, WorkerConfigs, Schedulers, {NoEvents})

Next ==
    \/ Step
    \/ RunReturn
    \/ NewEvent
    \/ IncomingRun
    \/ WorkerOnBatchStart
    \/ WorkerOnBatchDone
    \/ SchedOnWakeUp
    \/ SchedOnIncomingJobs
    \/ SchedOnBatchDone

Spec == Init /\ [][Next]_vars

\* one worker of batch size 1 under FIFO, jobs of length 1 with budget 0 or none
DeepConfigs ==
    {[lengths |-> {1}, qextra |-> {0}, budgets |-> {None, 0},
      delays |-> 0..MaxDelay, pers |-> 1..MaxPer, max_jobs |-> DeepJobs]}

InitDeep == InitWith(DeepConfigs, {<<1>>}, {[type |-> "FIFO"]}, {NoEvents})

SpecDeep == InitDeep /\ [][Next]_vars

\* EndCondition::Time { max }
TimeUntils == {[type |-> "Time", max |-> m] : m \in 0..MaxTime}

\* streams that release one job at a time, all at time 0, each with a budget
TimeConfigs ==
    {[lengths |-> 0..MaxLen, qextra |-> {0}, budgets |-> 0..MaxTime,
      delays |-> {0}, pers |-> {1}, max_jobs |-> DeepJobs]}

\* one worker of batch size 1 under FIFO, run until the clock passes max
InitTime == InitWith(TimeConfigs, {<<1>>}, {[type |-> "FIFO"]}, TimeUntils)

SpecTime == InitTime /\ [][Next]_vars

\* jobs of length 10 (a constant length, so its quantile is 10) with budget 9 or 12
DeadlineConfigs ==
    {[lengths |-> {10}, qextra |-> {0}, budgets |-> {9, 12},
      delays |-> 0..MaxDelay, pers |-> 1..MaxPer, max_jobs |-> MaxJobs]}

\* one worker of batch size 1 under the My policy
InitMy == InitWith(DeadlineConfigs, {<<1>>}, {[type |-> "My"]}, {NoEvents})

SpecMy == InitMy /\ [][Next]_vars

\* ---------------------------------------------------------------- two runs, one seed
\* Random { seed }: the seed fixes the outputs of the generator
SeededSchedulers ==
    {[type |-> "FIFO"], [type |-> "My"]}
    \cup {[type |-> "Random", tape |-> tp, pos |-> 0] : tp \in [1..TapeLen -> 0..MaxDraw]}

\* streams of jobs of length 1 without budget
TwinConfigs ==
    {[lengths |-> {1}, qextra |-> {0}, budgets |-> {None},
      delays |-> 0..MaxDelay, pers |-> 1..MaxPer, max_jobs |-> MaxJobs]}

\* the first of two runs of one configuration
InitTwin ==
    /\ InitSim(TwinConfigs, {<<MaxBatchSize>>, <<1, 1>>}, SeededSchedulers, {NoEvents})
    /\ replay = [run |-> 1, first |-> <<>>]

\* the first run received the batch `jobs` at time t
KnownItem(t, jobs) ==
    \E i \in DOMAIN replay.first :
        /\ replay.first[i].message.kind = "IncomingJobs"
        /\ replay.first[i].time = t
        /\ replay.first[i].message.jobs = jobs

\* the first run received no job with an id from next_id on
StreamEnded(next_id) ==
    \A i \in DOMAIN replay.first :
        \A k \in DOMAIN replay.first[i].message.jobs :
            replay.first[i].message.jobs[k].id < next_id

\* the incoming stream is a function of the seed and the configuration: what the
\* second run has pulled from it is what the first run received
SameStream ==
    /\ incoming.peek = "item" => KnownItem(incoming.t, incoming.jobs)
    /\ incoming.peek = "end" => StreamEnded(incoming.next_id)
    /\ \A i \in DOMAIN bus :
          (bus[i].h = "new_event" /\ bus[i].m.kind = "IncomingJobs")
              => KnownItem(bus[i].time, bus[i].m.jobs)

\* IncomingController::run over the seeded stream
IncomingRunSeeded == IncomingRun /\ (replay.run = 2 => SameStream')

\* Simulator::new and Simulator::run once more, with the seed and the configuration
\* of the run that has just returned; its processed_events are kept for comparison
Rerun ==
    /\ replay.run = 1 /\ pc = "done"
    /\ replay' = [run |-> 2, first |-> processed_events]
    /\ processed_events' = <<>>
    /\ future_events' = SeedEvents
    /\ time' = 0
    /\ pending_jobs' = <<>>
    /\ workers' = [i \in DOMAIN workers |-> [workers[i] EXCEPT !.timeline = <<>>]]
    /\ next_wakeup' = 0
    /\ incoming' = [cfg |-> incoming.cfg, peek |-> "unpolled", t |-> 0, jobs |-> <<>>,
                    abs |-> 0, next_id |-> 0]
    /\ scheduler' = IF "tape" \in DOMAIN scheduler THEN [scheduler EXCEPT !.pos = 0]
                    ELSE scheduler
    /\ bus' = <<>>
    /\ pc' = "run"
    /\ panicked' = FALSE
    /\ pushed' = 3
    /\ emitted' = <<>>
    /\ UNCHANGED until

NextTwin ==
    \/ Step
    \/ RunReturn
    \/ NewEvent
    \/ IncomingRunSeeded
    \/ WorkerOnBatchStart
    \/ WorkerOnBatchDone
    \/ SchedOnWakeUp
    \/ SchedOnIncomingJobs
    \/ SchedOnBatchDone
    \/ Rerun

SpecTwin == InitTwin /\ [][NextTwin]_vars

\* ---------------------------------------------------------------- the incoming stream alone
\* the models of a configuration file
GeneratorModels ==
    {[type |-> "OneBatch", d |-> d, n |-> n, bursty |-> FALSE, budget |-> b] :
        d \in (0..MaxDelay) \cup {2, 5}, n \in 0..MaxPer, b \in {None, MaxBudget}}
    \cup
    {[type |-> "Rate", d |-> d, n |-> n, bursty |-> b, budget |-> None] :
        d \in 1..(MaxDelay + 1), n \in (1..MaxPer) \cup {IdStride}, b \in BOOLEAN}

\* IncomingConfig: Single(model) or Array(models)
GeneratorConfigs ==
    {[kind |-> "Single", models |-> <<m>>] : m \in GeneratorModels}
    \cup
    UNION {{[kind |-> "Array", models |-> ms] : ms \in [1..k -> GeneratorModels]} :
              k \in 1..MaxModels}

\* incoming::from_config, before anything is pulled from the stream; the simulation
\* itself is not started
InitIncoming ==
    /\ incoming \in UNION {{[cfg |-> c, src |-> src, out |-> <<>>, ended |-> FALSE] :
                                src \in from_config(c)} : c \in GeneratorConfigs}
    /\ processed_events = <<>>
    /\ future_events = <<>>
    /\ time = 0
    /\ pending_jobs = <<>>
    /\ workers = <<>>
    /\ next_wakeup = 0
    /\ scheduler = [type |-> "FIFO"]
    /\ until = NoEvents
    /\ bus = <<>>
    /\ pc = "incoming"
    /\ panicked = FALSE
    /\ pushed = 0
    /\ emitted = <<>>
    /\ replay = NoReplay

\* Incoming::next: one more item is pulled from the stream
IncomingNext ==
    /\ pc = "incoming" /\ ~incoming.ended /\ Len(incoming.out) < MaxPulls
    /\ \E r \in incoming_next(incoming.src) :
          incoming' = [cfg |-> incoming.cfg,
                       src |-> r.src,
                       out |-> IF r.some THEN Append(incoming.out, r.item) ELSE incoming.out,
                       ended |-> ~r.some]
    /\ UNCHANGED <<processed_events, future_events, time, pending_jobs, workers,
                   next_wakeup, scheduler, until, bus, pc, panicked, pushed, emitted, replay>>

SpecIncoming == InitIncoming /\ [][IncomingNext]_vars

\* ---------------------------------------------------------------- the simulator over from_config
\* the jobs of a stream item: ids first .. first + n - 1, the budget of the spec,
\* lengths sampled from the constant distribution of the spec (its quantile is the constant)
ItemJobs(it, length) ==
    [i \in 1..it.n |-> [id |-> it.first + i - 1, length |-> length, q |-> length,
                        budget |-> it.budget]]

\* IncomingAbsolute::next over the stream of from_config
PullMerged(inc) ==
    {IF r.some
     THEN [inc EXCEPT !.src = r.src, !.peek = "item", !.abs = inc.abs + r.item.delay,
                      !.t = inc.abs + r.item.delay, !.jobs = ItemJobs(r.item, inc.length)]
     ELSE [inc EXCEPT !.src = r.src, !.peek = "end", !.t = 0, !.jobs = <<>>]
        : r \in incoming_next(inc.src)}

\* Peekable::peek
PeekMerged(inc) == IF inc.peek = "unpolled" THEN PullMerged(inc) ELSE {inc}

\* IncomingController::run over the stream of from_config
IncomingRunMerged ==
    /\ Handling("IncomingController::run")
    /\ \E p1 \in PeekMerged(incoming) :
          IF p1.peek = "item" /\ time >= p1.t
          THEN \E p2 \in PullMerged(p1) :
                  /\ incoming' = p2
                  /\ bus' = Tail(bus) \o post_event(p1.t, MsgIncomingJobs(p1.jobs))
                               \o (IF p2.peek = "item"
                                   THEN post_event(p2.t, Msg("WakeUpIncomingController"))
                                   ELSE <<>>)
          ELSE /\ incoming' = p1
               /\ bus' = Tail(bus) \o (IF p1.peek = "item"
                                       THEN post_event(p1.t, Msg("WakeUpIncomingController"))
                                       ELSE <<>>)
    /\ UNCHANGED <<processed_events, future_events, time, pending_jobs, workers,
                   next_wakeup, scheduler, until, pc, panicked, pushed, emitted, replay>>

\* OneBatch models that release up to MaxPer jobs after a delay of 0, 1 or 5
MergedModels ==
    {[type |-> "OneBatch", d |-> d, n |-> n, bursty |-> FALSE, budget |-> None] :
        d \in (0..MaxDelay) \cup {5}, n \in 0..MaxPer}

\* arrays of up to MaxModels + 1 models
MergedConfigs ==
    UNION {{[kind |-> "Array", models |-> ms] : ms \in [1..k -> MergedModels]} :
              k \in 1..(MaxModels + 1)}

\* Simulator::new over incoming::from_config, jobs of length 10, FIFO
InitMerged ==
    /\ incoming \in UNION {{[cfg |-> c, src |-> src, length |-> 10, peek |-> "unpolled",
                              t |-> 0, jobs |-> <<>>, abs |-> 0] : src \in from_config(c)} :
                              c \in MergedConfigs}
    /\ processed_events = <<>>
    /\ future_events = SeedEvents
    /\ time = 0
    /\ pending_jobs = <<>>
    /\ workers \in {WorkersFrom(c) : c \in {<<1>>, <<MaxBatchSize>>}}
    /\ next_wakeup = 0
    /\ scheduler = [type |-> "FIFO"]
    /\ until = NoEvents
    /\ bus = <<>>
    /\ pc = "run"
    /\ panicked = FALSE
    /\ pushed = 3
    /\ emitted = <<>>
    /\ replay = NoReplay

NextMerged ==
    \/ Step
    \/ RunReturn
    \/ NewEvent
    \/ IncomingRunMerged
    \/ WorkerOnBatchStart
    \/ WorkerOnBatchDone
    \/ SchedOnWakeUp
    \/ SchedOnIncomingJobs
    \/ SchedOnBatchDone

SpecMerged == InitMerged /\ [][NextMerged]_vars

\* ---------------------------------------------------------------- one worker, any scheduler
\* The worker controller and the timeline under a Scheduler that may publish any
\* BatchStart: any start time, any number of jobs, whatever the worker is doing.
NoCall == [call |-> "none", tl |-> <<>>, probe |-> <<0, 0>>, found |-> <<>>, idle |-> FALSE]

\* a batch of n jobs of length l
JobsOf(n, l) ==
    [i \in 1..n |-> [id |-> i - 1, admitted |-> 0, length |-> l, q |-> l, deadline |-> None]]

InitWorker ==
    /\ workers \in {WorkersFrom(<<b>>) : b \in 1..MaxBatchSize}
    /\ incoming = NoCall
    /\ processed_events = <<>>
    /\ future_events = <<>>
    /\ time = 0
    /\ pending_jobs = <<>>
    /\ next_wakeup = 0
    /\ scheduler = [type |-> "FIFO"]
    /\ until = NoEvents
    /\ bus = <<>>
    /\ pc = "run"
    /\ panicked = FALSE
    /\ pushed = 0
    /\ emitted = <<>>
    /\ replay = NoReplay

\* a scheduler publishes msg::BatchStart { which: 0, when, jobs }
AnyBatchStart ==
    /\ pc = "run" /\ ~panicked /\ bus = <<>> /\ pushed < MaxStarts
    /\ \E when \in 0..MaxWhen, n \in {0, 1, MaxBatchSize + 1}, l \in 0..MaxSize :
          bus' = publish(MsgBatchStart(0, when, JobsOf(n, l)))
    /\ UNCHANGED <<processed_events, future_events, time, pending_jobs, workers, next_wakeup,
                   incoming, scheduler, until, pc, panicked, pushed, emitted, replay>>

\* the intervals the timeline is asked about
ProbeIntervals == {<<a, b>> : a \in 0..MaxWhen, b \in (0..(MaxWhen + MaxSize)) \cup {Inf}}

\* a call of Timeline::occupied on the worker's timeline
TimelineOccupied ==
    /\ pc = "run" /\ ~panicked /\ bus = <<>>
    /\ \E iv \in ProbeIntervals :
          incoming' = [call |-> "occupied", tl |-> workers[1].timeline, probe |-> iv,
                       found |-> occupied(workers[1].timeline, iv), idle |-> FALSE]
    /\ pc' = "called"
    /\ UNCHANGED <<processed_events, future_events, time, pending_jobs, workers, next_wakeup,
                   scheduler, until, bus, panicked, pushed, emitted, replay>>

\* a call of Timeline::idle on the worker's timeline
TimelineIdle ==
    /\ pc = "run" /\ ~panicked /\ bus = <<>>
    /\ \E since \in 0..(MaxWhen + MaxSize) :
          incoming' = [call |-> "idle", tl |-> workers[1].timeline, probe |-> <<since, Inf>>,
                       found |-> <<>>, idle |-> idle(workers[1].timeline, since)]
    /\ pc' = "called"
    /\ UNCHANGED <<processed_events, future_events, time, pending_jobs, workers, next_wakeup,
                   scheduler, until, bus, panicked, pushed, emitted, replay>>

NextWorker ==
    \/ AnyBatchStart
    \/ WorkerOnBatchStart
    \/ NewEvent
    \/ Step
    \/ WorkerOnBatchDone
    \/ SchedOnBatchDone
    \/ TimelineOccupied
    \/ TimelineIdle

SpecWorker == InitWorker /\ [][NextWorker]_vars

\* ---------------------------------------------------------------- randvars.rs
\* A probability is k / QSteps for k in 0..QSteps.  A RandomVariable is
\* [type, low, high, offset, factor]: Constant(low), or Uniform {low, high} with its
\* Transformation {offset, factor}.
Transformation_apply(rv, point) == point * rv.factor + rv.offset

\* Uniform::inverse_cdf(p) = low + p * (high - low)
inverse_cdf(rv, k) == rv.low + (k * (rv.high - rv.low)) \div QSteps

\* Uniform::min / Uniform::max
dist_min(rv) == rv.low

dist_max(rv) == rv.high

RandomVariable_min(rv) == IF rv.type = "Constant" THEN rv.low ELSE dist_min(rv)

RandomVariable_max(rv) == IF rv.type = "Constant" THEN rv.low ELSE dist_max(rv)

RandomVariable_quantile(rv, k) ==
    IF rv.type = "Constant" THEN rv.low ELSE Transformation_apply(rv, inverse_cdf(rv, k))

RandomVariables ==
    {[type |-> "Constant", low |-> c, high |-> c, offset |-> 0, factor |-> 1] : c \in 0..MaxLow}
    \cup {[type |-> "Uniform", low |-> l, high |-> l + w * QSteps, offset |-> o, factor |-> f] :
             l \in 0..MaxLow, w \in 1..MaxWidth, o \in 0..MaxOffset, f \in 0..MaxFactor}

\* a variable and what its methods have returned so far
InitRandVar ==
    /\ incoming \in {[rv |-> rv, min |-> <<>>, max |-> <<>>, quant |-> <<>>] : rv \in RandomVariables}
    /\ processed_events = <<>> /\ future_events = <<>> /\ time = 0
    /\ pending_jobs = <<>> /\ workers = <<>> /\ next_wakeup = 0
    /\ scheduler = [type |-> "FIFO"] /\ until = NoEvents /\ bus = <<>>
    /\ pc = "run" /\ panicked = FALSE /\ pushed = 0 /\ emitted = <<>>
    /\ replay = NoReplay

RandVarFrame ==
    UNCHANGED <<processed_events, future_events, time, pending_jobs, workers, next_wakeup,
                scheduler, until, bus, pc, panicked, pushed, emitted, replay>>

CallMin ==
    /\ incoming.min = <<>>
    /\ incoming' = [incoming EXCEPT !.min = <<RandomVariable_min(incoming.rv)>>]
    /\ RandVarFrame

CallMax ==
    /\ incoming.max = <<>>
    /\ incoming' = [incoming EXCEPT !.max = <<RandomVariable_max(incoming.rv)>>]
    /\ RandVarFrame

\* quantile(k / QSteps); quant is the sequence of the <<k, result>> of the calls
CallQuantile ==
    /\ Len(incoming.quant) < MaxCalls
    /\ \E k \in 0..QSteps :
          incoming' = [incoming EXCEPT
                          !.quant = Append(@, <<k, RandomVariable_quantile(incoming.rv, k)>>)]
    /\ RandVarFrame

NextRandVar == CallMin \/ CallMax \/ CallQuantile

SpecRandVar == InitRandVar /\ [][NextRandVar]_vars

\* ---------------------------------------------------------------- simulator.rs
\* schedule_loop: the driver that polls the incoming stream after each event.  Its
\* Event is ordered by time alone; its heap is BinaryHeap<Reverse<Event>>.
LoopRevLE(a, b) == b.time <= a.time

RECURSIVE loop_sift_up(_, _, _, _)
loop_sift_up(h, start, pos, elt) ==
    IF pos > start
    THEN LET parent == (pos - 1) \div 2
         IN IF LoopRevLE(elt, h[parent + 1])
            THEN [h EXCEPT ![pos + 1] = elt]
            ELSE loop_sift_up([h EXCEPT ![pos + 1] = h[parent + 1]], start, parent, elt)
    ELSE [h EXCEPT ![pos + 1] = elt]

RECURSIVE loop_sift_down_to_bottom(_, _, _, _)
loop_sift_down_to_bottom(h, pos, child, elt) ==
    LET end == Len(h)
    IN IF child <= SatSub(end, 2)
       THEN LET c == IF LoopRevLE(h[child + 1], h[child + 2]) THEN child + 1 ELSE child
            IN loop_sift_down_to_bottom([h EXCEPT ![pos + 1] = h[c + 1]], c, 2 * c + 1, elt)
       ELSE IF child = end - 1
            THEN loop_sift_up([h EXCEPT ![pos + 1] = h[child + 1]], 0, child, elt)
            ELSE loop_sift_up(h, 0, pos, elt)

LoopPush(h, e) == loop_sift_up(Append(h, e), 0, Len(h), e)

LoopPop(h) ==
    IF Len(h) = 1 THEN <<>>
    ELSE LET last == Last(h)
             d == [SubSeq(h, 1, Len(h) - 1) EXCEPT ![1] = last]
         IN loop_sift_down_to_bottom(d, 0, 1, last)

\* Event { time, state }
LoopEvent(t, kind, jobs) == [time |-> t, state |-> kind, jobs |-> jobs]

\* Batch::latency: the longest job of the batch
latency(jobs) == SeqMax([i \in DOMAIN jobs |-> jobs[i].length])

\* what a Scheduler callback may return for the pending jobs: Idle, or the BatchDone
\* of a batch made of a head of the queue
SchedulerReturns(pending) ==
    {[state |-> "Idle", jobs |-> <<>>, pending |-> pending]}
    \cup {[state |-> "BatchDone", jobs |-> SubSeq(pending, 1, n),
           pending |-> SubSeq(pending, n + 1, Len(pending))] : n \in 1..Len(pending)}

\* the event that the state returned by the scheduler schedules (SystemState::get_effect)
EffectOf(next, now) ==
    IF next.state = "BatchDone"
    THEN <<LoopEvent(now + latency(next.jobs), "BatchDone", next.jobs)>>
    ELSE <<>>

RECURSIVE LoopPushAll(_, _)
LoopPushAll(h, es) == IF es = <<>> THEN h ELSE LoopPushAll(LoopPush(h, Head(es)), Tail(es))

\* the end condition checked at the bottom of the loop body
LoopEnd(now) == until.type = "Time" /\ now > until.max

InitLoop ==
    /\ processed_events = <<>>
    /\ future_events = <<LoopEvent(0, "Start", <<>>)>>
    /\ time = 0
    /\ pending_jobs = <<>>
    /\ incoming \in {[cfg |-> c, peek |-> "unpolled", t |-> 0, jobs |-> <<>>,
                      abs |-> 0, next_id |-> 0, polled |-> <<>>] : c \in IncomingConfigs}
    /\ until \in {NoEvents} \cup TimeUntils
    /\ pc = "run"
    /\ workers = <<>> /\ next_wakeup = 0 /\ scheduler = [type |-> "FIFO"] /\ bus = <<>>
    /\ panicked = FALSE /\ pushed = 0 /\ emitted = <<>> /\ replay = NoReplay

LoopFrame ==
    UNCHANGED <<workers, next_wakeup, scheduler, until, bus, panicked, pushed, emitted, replay>>

\* one event: the pop, the past-due handling, the scheduler and the event it schedules
LoopHandle ==
    /\ pc = "run" /\ future_events # <<>>
    /\ LET event == future_events[1]
           now == event.time
           missed(j) == missed_deadline(j, now)
           not_missed(j) == ~missed_deadline(j, now)
           past_due == SelectSeq(pending_jobs, missed)
           kept == SelectSeq(pending_jobs, not_missed)
           h1 == IF past_due # <<>>
                 THEN LoopPush(LoopPop(future_events), LoopEvent(now, "JobsPastDue", past_due))
                 ELSE LoopPop(future_events)
           admitted == [i \in DOMAIN event.jobs |-> into_job(event.jobs[i], now)]
       IN /\ time' = now
          /\ processed_events' = Append(processed_events, event)
          /\ \E next \in (IF event.state = "IncomingJobs" THEN SchedulerReturns(kept \o admitted)
                          ELSE IF event.state = "BatchDone" THEN SchedulerReturns(kept)
                          ELSE {[state |-> "Idle", jobs |-> <<>>, pending |-> kept]}) :
                /\ pending_jobs' = next.pending
                /\ future_events' = LoopPushAll(h1, EffectOf(next, now))
    /\ incoming' = [incoming EXCEPT !.polled = <<>>]
    /\ pc' = "poll"
    /\ LoopFrame

\* the while-let ends: no event is left
LoopReturn ==
    /\ pc = "run" /\ future_events = <<>>
    /\ pc' = "done"
    /\ UNCHANGED <<processed_events, future_events, time, pending_jobs, incoming>>
    /\ LoopFrame

\* the condition of the polling loop
PollAgain == IF future_events = <<>> THEN TRUE ELSE future_events[1].state = "BatchDone"

\* incoming_jobs.next()
LoopNext(inc) == IF inc.peek = "end" THEN {inc} ELSE Pull(inc)

\* one iteration of the polling loop
PollPull ==
    /\ pc = "poll" /\ PollAgain
    /\ \E p \in LoopNext(incoming) :
          IF p.peek = "item"
          THEN /\ future_events' = LoopPush(future_events, LoopEvent(p.t, "IncomingJobs", p.jobs))
               /\ incoming' = [p EXCEPT !.polled = Append(@, p.t)]
               /\ pc' = "poll"
          ELSE /\ incoming' = p
               /\ pc' = IF LoopEnd(time) THEN "done" ELSE "run"
               /\ UNCHANGED future_events
    /\ UNCHANGED <<processed_events, time, pending_jobs>>
    /\ LoopFrame

\* the polling loop ends on its condition; then the end condition
PollStop ==
    /\ pc = "poll" /\ ~PollAgain
    /\ pc' = IF LoopEnd(time) THEN "done" ELSE "run"
    /\ UNCHANGED <<processed_events, future_events, time, pending_jobs, incoming>>
    /\ LoopFrame

NextLoop == LoopHandle \/ LoopReturn \/ PollPull \/ PollStop

SpecLoop == InitLoop /\ [][NextLoop]_vars

\* ---------------------------------------------------------------- properties
AllEvents == future_events \o processed_events

EventsOf(kind) == {i \in DOMAIN AllEvents : AllEvents[i].message.kind = kind}

RECURSIVE Flatten(_)
Flatten(ss) == IF ss = <<>> THEN <<>> ELSE Head(ss) \o Flatten(Tail(ss))

Ids(jobs) == [i \in DOMAIN jobs |-> jobs[i].id]

Count(x, s) == Cardinality({i \in DOMAIN s : s[i] = x})

\* no handler is running or waiting, and the run has not been aborted
EventBoundary == bus = <<>> /\ ~panicked

\* the ids of the jobs admitted so far: those of the handled IncomingJobs events
AdmittedIds ==
    UNION {{processed_events[i].message.jobs[k].id : k \in DOMAIN processed_events[i].message.jobs} :
              i \in {n \in DOMAIN processed_events :
                        processed_events[n].message.kind = "IncomingJobs"}}

PlacesOfJobs ==
    Ids(pending_jobs)
    \o Flatten([i \in DOMAIN AllEvents |->
                   IF AllEvents[i].message.kind = "PastDue" THEN Ids(AllEvents[i].message.jobs)
                   ELSE IF AllEvents[i].message.kind = "BatchDone"
                   THEN Ids(AllEvents[i].message.batch.done) \o Ids(AllEvents[i].message.batch.past_due)
                   ELSE <<>>])

\* C1: at every event boundary every admitted job is in exactly one of pending_jobs,
\* a PastDue event, a batch's done list or a batch's past_due list, and no job that
\* was not admitted is in any of them
C1_JobConservation ==
    EventBoundary =>
        \A id \in 0..(incoming.cfg.max_jobs - 1) :
            Count(id, PlacesOfJobs) = IF id \in AdmittedIds THEN 1 ELSE 0

\* a boundary with a pending job, a PastDue event and a batch holding a done job
C1_Witness ==
    /\ EventBoundary
    /\ pending_jobs # <<>>
    /\ EventsOf("PastDue") # {}
    /\ \E i \in EventsOf("BatchDone") : AllEvents[i].message.batch.done # <<>>

IvSorted(tl) == \A i \in 1..(Len(tl) - 1) : ~IvLess(tl[i + 1], tl[i])

IvPairwiseDisjoint(tl) == \A i, j \in DOMAIN tl : i < j => ~overlap(tl[i], tl[j])

\* C3: every worker's timeline is sorted ascending and its intervals are pairwise
\* non-overlapping, in every reachable state
C3_TimelineSortedDisjoint ==
    \A w \in DOMAIN workers :
        IvSorted(workers[w].timeline) /\ IvPairwiseDisjoint(workers[w].timeline)

\* at an event boundary, a timeline that holds two non-empty intervals after an
\* earlier batch of the same worker was completed and removed
C3_Witness ==
    \E w \in DOMAIN workers :
        /\ EventBoundary
        /\ Len(workers[w].timeline) >= 2
        /\ \A i \in DOMAIN workers[w].timeline : ~IvIsEmpty(workers[w].timeline[i])
        /\ \E i \in EventsOf("BatchDone") :
              /\ i > Len(future_events)
              /\ AllEvents[i].message.batch.id = workers[w].id

\* C2: every BatchStart reaches a worker whose timeline is idle at the clock, and the
\* no-overlap assertion of Worker::batch_start never fails
C2_BatchStartOnIdleWorker ==
    /\ ~panicked
    /\ (bus # <<>> /\ Head(bus).h = "WorkerController::on_batch_start")
          => idle(workers[Head(bus).m.which + 1].timeline, time)

\* C4: the times of consecutive processed events never decrease
C4_ClockMonotone ==
    \A i \in 1..(Len(processed_events) - 1) :
        processed_events[i].time <= processed_events[i + 1].time

MaxLength(jobs) == SeqMax([i \in DOMAIN jobs |-> jobs[i].length])

SameJobs(a, b) == {a[i].id : i \in DOMAIN a} = {b[i].id : i \in DOMAIN b} /\ Len(a) = Len(b)

\* the BatchDone events (queued or processed) of the batch a BatchStart describes
BatchDonesOf(bs) ==
    {i \in EventsOf("BatchDone") :
        SameJobs(AllEvents[i].message.batch.done \o AllEvents[i].message.batch.past_due, bs.jobs)}

\* C5: once no handler is left to run, every emitted BatchStart has exactly one
\* BatchDone event, at time start + max length, carrying [start, start + max length)
C5_BatchDoneAtMaxLength ==
    (bus = <<>> \/ panicked) =>
        \A k \in DOMAIN emitted :
            /\ Cardinality(BatchDonesOf(emitted[k])) = 1
            /\ \A i \in BatchDonesOf(emitted[k]) :
                  /\ AllEvents[i].time = emitted[k].when + MaxLength(emitted[k].jobs)
                  /\ AllEvents[i].message.batch.interval =
                         <<emitted[k].when, MaxLength(emitted[k].jobs)>>
                  /\ AllEvents[i].message.batch.id = emitted[k].which

InSeq(x, s) == \E i \in DOMAIN s : s[i] = x

\* C6: a job with deadline d of a batch b is in b.done iff b.interval.end <= d, and
\* in b.past_due otherwise; a job without deadline is in b.done
C6_DoneIffEndBeforeDeadline ==
    \A i \in EventsOf("BatchDone") :
        LET b == AllEvents[i].message.batch
            jobs == b.done \o b.past_due
        IN \A k \in DOMAIN jobs :
               IF jobs[k].deadline = None THEN InSeq(jobs[k], b.done)
               ELSE InSeq(jobs[k], b.done) <=> (ub(b.interval) <= jobs[k].deadline)

\* what a handler appended to the bus
Posted == SubSeq(bus', Len(bus), Len(bus'))

\* C7: past-due detection at clock t emits exactly the pending jobs with deadline <= t,
\* in pending order, and keeps the others in pending_jobs in their order
C7_PastDueExactlyExpired ==
    [][Handling("SchedulerController::on_wake_up") =>
         LET expired(j) == j.deadline # None /\ j.deadline <= time
             alive(j) == ~expired(j)
             isPastDue(d) == d.m.kind = "PastDue"
             posts == SelectSeq(Posted, isPastDue)
         IN /\ pending_jobs' = SelectSeq(pending_jobs, alive)
            /\ IF SelectSeq(pending_jobs, expired) = <<>> THEN posts = <<>>
               ELSE /\ Len(posts) = 1
                    /\ posts[1].m.jobs = SelectSeq(pending_jobs, expired)
                    /\ posts[1].time = time]_vars

\* C8: a PastDue event fires exactly at the deadline of each job it carries, and no
\* pending job is left behind its deadline at an event boundary
C8_PastDueOnTime ==
    /\ \A i \in EventsOf("PastDue") :
          \A k \in DOMAIN AllEvents[i].message.jobs :
              AllEvents[i].message.jobs[k].deadline = AllEvents[i].time
    /\ EventBoundary =>
          \A k \in DOMAIN pending_jobs :
              pending_jobs[k].deadline # None => pending_jobs[k].deadline >= time

\* the order the driver is required to follow among events of one time
RequiredRank(kind) ==
    CASE kind = "BatchDone" -> 0
      [] kind = "PastDue" -> 1
      [] kind = "WakeUpSchedulerController" -> 2
      [] kind = "IncomingJobs" -> 3

Ordered(kind) == kind \in {"BatchDone", "PastDue", "WakeUpSchedulerController", "IncomingJobs"}

\* C9: the event the driver pops precedes, in the required order BatchDone, PastDue,
\* scheduler wake-up, IncomingJobs, every event still queued for the same time
C9_SameTimeOrder ==
    [][processed_events' # processed_events =>
         LET e == Last(processed_events')
         IN \A i \in DOMAIN future_events' :
                (/\ future_events'[i].time = e.time
                 /\ Ordered(e.message.kind)
                 /\ Ordered(future_events'[i].message.kind))
                    => RequiredRank(e.message.kind) <= RequiredRank(future_events'[i].message.kind)]_vars

\* C10: events of the same time are processed in the order they were pushed
C10_FifoTieBreak ==
    \A i, j \in DOMAIN processed_events :
        (i < j /\ processed_events[i].time = processed_events[j].time)
            => processed_events[i].seq < processed_events[j].seq

\* the driver is at the head of its loop: no handler is left to run
AtLoopHead == pc = "run" /\ bus = <<>> /\ ~panicked

\* C11: under either end condition the driver halts as soon as the event queue is
\* empty: at the head of the loop with an empty queue the loop condition ends the run
C11_HaltsOnEmptyQueue ==
    (AtLoopHead /\ future_events = <<>>) => is_end

OverMax(e) == e.time > until.max

\* C12: under Time{max} at most one processed event has a time > max and it is the
\* last one processed, and when the run has halted no event with time <= max is queued
C12_HaltsAfterFirstOverMax ==
    until.type = "Time" =>
        /\ Len(SelectSeq(processed_events, OverMax)) <= 1
        /\ \A i \in DOMAIN processed_events :
               OverMax(processed_events[i]) => i = Len(processed_events)
        /\ pc = "done" =>
               \A i \in DOMAIN future_events : OverMax(future_events[i])

\* the BatchStart messages the running callback published
NewStarts == SubSeq(emitted', Len(emitted) + 1, Len(emitted'))

BatchSizeOf(which) == workers[which + 1].batch_size

\* C13: every BatchStart a policy emits for worker w carries between 1 and
\* w.batch_size jobs, and a callback that runs with empty pending_jobs emits none
C13_BatchSizeRule ==
    [][LET sized == \A k \in DOMAIN NewStarts :
                        /\ 1 <= Len(NewStarts[k].jobs)
                        /\ Len(NewStarts[k].jobs) <= BatchSizeOf(NewStarts[k].which)
           callback == \/ Handling("SchedulerController::on_batch_done")
                       \/ Handling("SchedulerController::on_wake_up")
                       \/ (Handling("SchedulerController::on_incoming_jobs")
                              /\ Head(bus).m.jobs = <<>>)
       IN sized /\ ((pending_jobs = <<>> /\ callback) => NewStarts = <<>>)]_vars

\* a full batch and a batch shorter than its worker's batch size were emitted, and
\* SchedulerController::on_batch_done has just run with nothing pending
C13_Witness ==
    /\ \E k \in DOMAIN emitted :
          Len(emitted[k].jobs) = BatchSizeOf(emitted[k].which) /\ Len(emitted[k].jobs) > 1
    /\ \E k \in DOMAIN emitted : Len(emitted[k].jobs) < BatchSizeOf(emitted[k].which)
    /\ EventBoundary /\ pending_jobs = <<>>
    /\ processed_events # <<>> /\ Last(processed_events).message.kind = "BatchDone"

\* the job ids of a stream item
ItemIds(it) == it.first .. (it.first + it.n - 1)

\* C14: the models of an array only produce ids of their own range
\* [base, base + IdStride), and no two items of a stream share a job id
C14_UniqueJobIds ==
    /\ \A i \in DOMAIN incoming.out :
          (incoming.src.kind = "Array" /\ incoming.out[i].n > 0) =>
              /\ incoming.out[i].base <= incoming.out[i].first
              /\ incoming.out[i].first + incoming.out[i].n <= incoming.out[i].base + IdStride
    /\ \A i, j \in DOMAIN incoming.out :
          (i < j /\ incoming.out[i].n > 0 /\ incoming.out[j].n > 0) =>
              \/ incoming.out[i].first + incoming.out[i].n <= incoming.out[j].first
              \/ incoming.out[j].first + incoming.out[j].n <= incoming.out[i].first

\* a policy callback is running: it receives an IncomingJobs or a BatchDone message
PolicyCallback ==
    \/ Handling("SchedulerController::on_incoming_jobs")
    \/ Handling("SchedulerController::on_batch_done")

\* the ids of the queue the policy sees: pending_jobs, with the incoming jobs behind
QueueIds ==
    IF Handling("SchedulerController::on_incoming_jobs")
    THEN Ids(pending_jobs) \o Ids(Head(bus).m.jobs)
    ELSE Ids(pending_jobs)

\* the jobs of the BatchStart messages of the running callback, in emission order
StartedIds == Flatten([k \in DOMAIN NewStarts |-> Ids(NewStarts[k].jobs)])

\* how many jobs the callback emitted before its k-th BatchStart
StartedBefore(k) == Len(Flatten([i \in 1..(k - 1) |-> Ids(NewStarts[i].jobs)]))

\* the workers that are idle at the clock, in ascending id order
IdleWorkers ==
    LET isIdle(w) == idle(w.timeline, time)
    IN SelectSeq(workers, isIdle)

\* C15: in one FIFO callback the k-th idle worker in id order receives the next
\* min(batch_size, |pending|) jobs of the head of the queue, in queue order; the jobs
\* are removed, the rest of the queue keeps its order, and the callback stops only
\* when the idle workers or the pending jobs are used up
C15_FifoDrainsHead ==
    [][(PolicyCallback /\ scheduler.type = "FIFO") =>
          /\ StartedIds \o Ids(pending_jobs') = QueueIds
          /\ Len(NewStarts) <= Len(IdleWorkers)
          /\ \A k \in DOMAIN NewStarts :
                 /\ NewStarts[k].which = IdleWorkers[k].id
                 /\ NewStarts[k].when = time
                 /\ Len(NewStarts[k].jobs) =
                        Min2(IdleWorkers[k].batch_size, Len(QueueIds) - StartedBefore(k))
          /\ (pending_jobs' = <<>> \/ Len(NewStarts) = Len(IdleWorkers))]_vars

\* a FIFO callback gave a batch to worker 0 and to worker 1, and a later callback
\* found no worker idle and left its job pending
C15_Witness ==
    /\ scheduler.type = "FIFO" /\ EventBoundary
    /\ \E k \in 1..(Len(emitted) - 1) :
          /\ emitted[k].when = emitted[k + 1].when
          /\ emitted[k].which = 0 /\ emitted[k + 1].which = 1
    /\ pending_jobs # <<>>
    /\ processed_events # <<>> /\ Last(processed_events).message.kind = "IncomingJobs"

\* the ids at the positions from + 1 .. from + n of the queue the policy sees
QueueSegment(from, n) == {QueueIds[i] : i \in (from + 1)..(from + n)}

\* C16: every batch of a Random callback is a permutation of the head segment of the
\* queue that FIFO would take for it, and the jobs behind the drained segments stay
\* pending in their order
C16_RandomPermutesHead ==
    [][(PolicyCallback /\ scheduler.type = "Random") =>
          /\ \A k \in DOMAIN NewStarts :
                 {NewStarts[k].jobs[i].id : i \in DOMAIN NewStarts[k].jobs}
                     = QueueSegment(StartedBefore(k), Len(NewStarts[k].jobs))
          /\ Ids(pending_jobs') = SubSeq(QueueIds, Len(StartedIds) + 1, Len(QueueIds))]_vars

\* the processed BatchDone events at time t whose batch holds exactly the job id
RanAlone(id, t) ==
    {i \in DOMAIN processed_events :
        /\ processed_events[i].message.kind = "BatchDone"
        /\ processed_events[i].time = t
        /\ Ids(processed_events[i].message.batch.done
                 \o processed_events[i].message.batch.past_due) = <<id>>}

\* the first IncomingJobs event arrives at t = 0 with A (id 0, deadline 12) and
\* B (id 1, deadline 9), both of length 10
ExampleAB ==
    \E i \in DOMAIN processed_events :
        /\ processed_events[i].message.kind = "IncomingJobs"
        /\ \A j \in 1..(i - 1) : processed_events[j].message.kind # "IncomingJobs"
        /\ processed_events[i].time = 0
        /\ Len(processed_events[i].message.jobs) = 2
        /\ processed_events[i].message.jobs[1].budget = 12
        /\ processed_events[i].message.jobs[2].budget = 9

\* C17: the My policy starts deadline jobs in ascending order of deadline minus the
\* length quantile: with one worker of batch size 1 and pending [A (deadline 12),
\* B (deadline 9)] of length 10 at t = 0, once the run is over B has run alone and
\* finished at 10 and A has run alone after it and finished at 20
C17_DeadlineAwareOrder ==
    (pc = "done" /\ ExampleAB) => (RanAlone(1, 10) # {} /\ RanAlone(0, 20) # {})

\* C18: in one callback of the My policy no worker receives two BatchStart messages
\* (best-effort jobs only go to workers the deadline jobs left idle), and the jobs
\* that stay pending have the deadline jobs ahead of the best-effort jobs
C18_BestEffortOnlyOnIdle ==
    [][(PolicyCallback /\ scheduler.type = "My") =>
          /\ \A i, j \in DOMAIN NewStarts :
                 i < j => NewStarts[i].which # NewStarts[j].which
          /\ \A i, j \in DOMAIN pending_jobs' :
                 i < j => ~(pending_jobs'[i].deadline = None /\ pending_jobs'[j].deadline # None)]_vars

\* the Job an IncomingJob is admitted as at clock t
AdmittedAt(ij, t) ==
    [id |-> ij.id, admitted |-> t, length |-> ij.length, q |-> ij.q,
     deadline |-> IF ij.budget = None THEN None ELSE t + ij.budget]

\* C20: handling an IncomingJobs event at clock t puts behind the pending jobs one Job
\* per IncomingJob, in the order of the event, with the same id and length,
\* admitted = t and deadline = t + budget (none without budget); the policy then
\* sees that queue: every job of it is either started or still pending, and under
\* FIFO the started jobs followed by the pending ones are the queue itself
C20_Admission ==
    [][Handling("SchedulerController::on_incoming_jobs") =>
          LET msg == Head(bus).m
              queue == pending_jobs \o [i \in DOMAIN msg.jobs |-> AdmittedAt(msg.jobs[i], time)]
              seen == Flatten([k \in DOMAIN NewStarts |-> NewStarts[k].jobs]) \o pending_jobs'
          IN /\ Len(seen) = Len(queue)
             /\ \A i \in DOMAIN queue : Count(queue[i], seen) = 1
             /\ scheduler.type = "FIFO" => seen = queue]_vars

\* an IncomingJobs event was handled after time 0: a job admitted earlier was started
\* and a job of the event is pending with its deadline one budget after the clock
C20_Witness ==
    /\ EventBoundary /\ time > 0
    /\ processed_events # <<>> /\ Last(processed_events).message.kind = "IncomingJobs"
    /\ \E k \in DOMAIN emitted :
          emitted[k].when = time /\ emitted[k].jobs[1].admitted < time
    /\ \E i \in DOMAIN pending_jobs :
          /\ pending_jobs[i].admitted = time
          /\ pending_jobs[i].deadline = time + 1
          /\ \E j \in DOMAIN Last(processed_events).message.jobs :
                 Last(processed_events).message.jobs[j].id = pending_jobs[i].id

IsPrefix(a, b) == Len(a) <= Len(b) /\ SubSeq(b, 1, Len(a)) = a

C21_NoExpiredJobStarted ==
    \A k \in DOMAIN emitted :
        \A i \in DOMAIN emitted[k].jobs :
            emitted[k].jobs[i].deadline # None => emitted[k].jobs[i].deadline > emitted[k].when

\* two models that each release one job, both after the same delay, and one worker
\* of batch size 2
TwoAtOnce ==
    /\ Len(incoming.cfg.models) = 2
    /\ incoming.cfg.models[1].n = 1 /\ incoming.cfg.models[2].n = 1
    /\ incoming.cfg.models[1].d = incoming.cfg.models[2].d
    /\ Len(workers) = 1 /\ workers[1].batch_size = 2

\* C22: two generators each deliver one job at the same time t while a worker of
\* batch size 2 is idle: under FIFO the jobs 0 and 1000000 start at t in one batch,
\* whose BatchDone fires at t + 10, and no other batch is started
C22_SameTimeArrivalsShareBatch ==
    (pc = "done" /\ TwoAtOnce) =>
        /\ Len(emitted) = 1
        /\ \E i \in DOMAIN processed_events :
              /\ processed_events[i].message.kind = "BatchDone"
              /\ processed_events[i].time = incoming.cfg.models[1].d + 10
              /\ processed_events[i].message.batch.interval = <<incoming.cfg.models[1].d, 10>>
              /\ Ids(processed_events[i].message.batch.done
                       \o processed_events[i].message.batch.past_due) = <<0, IdStride>>

\* the absolute time of the k-th item of the stream: the sum of the delays up to it
RECURSIVE OutAbs(_)
OutAbs(k) == IF k = 0 THEN 0 ELSE OutAbs(k - 1) + incoming.out[k].delay

\* the items pulled so far, each with its absolute time
Stamped ==
    [k \in DOMAIN incoming.out |->
        [time |-> OutAbs(k), first |-> incoming.out[k].first, n |-> incoming.out[k].n,
         base |-> incoming.out[k].base]]

\* the base id from_config gives to the i-th model
BaseOf(i) == (i - 1) * IdStride

\* the merged stream restricted to the items of the i-th model
OfChild(i) ==
    LET mine(it) == it.base = BaseOf(i)
    IN SelectSeq(Stamped, mine)

\* the absolute time of the k-th item of a model that is not bursty, taken alone
OwnTime(m, k) == IF m.type = "OneBatch" THEN m.d ELSE k * m.d

\* the models whose head the merge holds: pulled from the model, not yet emitted
HeldHeads(i) ==
    {j \in DOMAIN incoming.src.heap : incoming.src.heap[j].head.base = BaseOf(i)}

\* C24: the merged stream is non-decreasing in absolute time; restricted to one model
\* it is that model's own stream, item by item, with the model's own absolute times
\* and payloads (so no item is lost, repeated or changed); no item of a model is
\* passed over: what a model has not released yet is not earlier than the merged
\* stream's last item; and the delays are the differences of the absolute times
C24_MergeKeepsStreams ==
    /\ \A k \in DOMAIN incoming.out : incoming.out[k].delay >= 0
    /\ \A k \in DOMAIN incoming.out :
          \E i \in DOMAIN incoming.cfg.models : incoming.out[k].base = BaseOf(i)
    /\ \A i \in DOMAIN incoming.cfg.models :
          LET m == incoming.cfg.models[i]
              mine == OfChild(i)
              last == OutAbs(Len(incoming.out))
          IN /\ m.type = "OneBatch" => Len(mine) <= 1
             /\ \A k \in DOMAIN mine :
                    /\ mine[k].first = BaseOf(i) + (k - 1) * m.n
                    /\ mine[k].n = m.n
                    /\ ~m.bursty => mine[k].time = OwnTime(m, k)
                    /\ (m.bursty /\ k > 1) => mine[k].time > mine[k - 1].time
             /\ ~m.bursty =>
                    \/ m.type = "OneBatch" /\ Len(mine) = 1
                    \/ OwnTime(m, Len(mine) + 1) >= last
             /\ (m.bursty /\ incoming.cfg.kind = "Array") =>
                    \A j \in HeldHeads(i) : incoming.src.heap[j].head.time >= last
             /\ incoming.ended => (m.type = "OneBatch" /\ Len(mine) = 1)

\* the models OneBatch after 5 and OneBatch after 2 have merged to the delays 2 then 3
C24_Witness ==
    /\ incoming.cfg.kind = "Array" /\ Len(incoming.cfg.models) = 2
    /\ incoming.cfg.models[1].type = "OneBatch" /\ incoming.cfg.models[1].d = 5
    /\ incoming.cfg.models[2].type = "OneBatch" /\ incoming.cfg.models[2].d = 2
    /\ incoming.cfg.models[1].n = 1 /\ incoming.cfg.models[2].n = 2
    /\ Len(incoming.out) = 2
    /\ incoming.out[1].delay = 2 /\ incoming.out[1].first = IdStride
    /\ incoming.out[2].delay = 3 /\ incoming.out[2].first = 0
    /\ incoming.ended

\* the positions in the stream of the items of the i-th model
PlacesOfChild(i) == {k \in DOMAIN incoming.out : incoming.out[k].base = BaseOf(i)}

\* C26: a OneBatch model (base_id, delay, n_jobs, spec) emits exactly one pair and
\* then ends: the pair has the given delay and a batch of the n_jobs jobs with the
\* ids base_id .. base_id + n_jobs - 1, each with the budget of the spec
C26_OneBatchOnce ==
    \A i \in DOMAIN incoming.cfg.models :
        LET m == incoming.cfg.models[i]
        IN m.type = "OneBatch" =>
              /\ Cardinality(PlacesOfChild(i)) <= 1
              /\ incoming.ended => Cardinality(PlacesOfChild(i)) = 1
              /\ \A k \in PlacesOfChild(i) :
                     /\ OutAbs(k) = m.d
                     /\ incoming.out[k].first = BaseOf(i)
                     /\ incoming.out[k].n = m.n
                     /\ incoming.out[k].budget = m.budget
                     /\ incoming.cfg.kind = "Single" => incoming.out[k].delay = m.d
              /\ incoming.cfg.kind = "Single" => Len(incoming.out) <= 1

\* a single OneBatch model with delay 5 and a budget has given its MaxPer jobs and ended
C26_Witness ==
    /\ incoming.cfg.kind = "Single"
    /\ incoming.cfg.models[1].type = "OneBatch" /\ incoming.cfg.models[1].d = 5
    /\ incoming.cfg.models[1].n = MaxPer /\ incoming.cfg.models[1].budget = MaxBudget
    /\ Len(incoming.out) = 1 /\ incoming.out[1].n = MaxPer /\ incoming.out[1].delay = 5
    /\ incoming.ended

\* C27: a Rate model that is not bursty never ends; every delay between its batches,
\* the one before the first batch included, is unit; every batch holds per jobs, and
\* the ids go up by one from base_id without gap or repeat from batch to batch
C27_RateSteady ==
    \A i \in DOMAIN incoming.cfg.models :
        LET m == incoming.cfg.models[i]
            mine == OfChild(i)
        IN (m.type = "Rate" /\ ~m.bursty) =>
              /\ ~incoming.ended
              /\ \A k \in DOMAIN mine :
                     /\ mine[k].time - (IF k = 1 THEN 0 ELSE mine[k - 1].time) = m.d
                     /\ mine[k].n = m.n
                     /\ mine[k].first = IF k = 1 THEN BaseOf(i)
                                        ELSE mine[k - 1].first + mine[k - 1].n
              /\ incoming.cfg.kind = "Single" =>
                     /\ \A k \in DOMAIN incoming.out : incoming.out[k].delay = m.d
                     /\ Len(incoming.out) < MaxPulls => ENABLED IncomingNext

\* a single Rate model of unit 2 and MaxPer jobs per batch has given MaxPulls batches
C27_Witness ==
    /\ incoming.cfg.kind = "Single"
    /\ incoming.cfg.models[1].type = "Rate" /\ ~incoming.cfg.models[1].bursty
    /\ incoming.cfg.models[1].d = 2 /\ incoming.cfg.models[1].n = MaxPer
    /\ Len(incoming.out) = MaxPulls
    /\ incoming.out[MaxPulls].first = (MaxPulls - 1) * MaxPer
    /\ incoming.out[1].delay = 2

\* C25: of two batches of different models with the same absolute time the merged
\* stream emits the batch of the model with the lower index first
C25_TiesByChildIndex ==
    \A k, l \in DOMAIN incoming.out :
        (k < l /\ OutAbs(k) = OutAbs(l) /\ incoming.out[k].base # incoming.out[l].base)
            => incoming.out[k].base < incoming.out[l].base

\* the intervals share a point of time
Meet(a, b) == \E x \in 0..(2 * (MaxWhen + MaxSize)) :
                  lb(a) <= x /\ x < ub(a) /\ lb(b) <= x /\ x < ub(b)

\* C28: on a sorted timeline of non-overlapping intervals Timeline::occupied(iv)
\* returns every stored interval that overlaps iv, and only those
C28_OccupiedFindsAll ==
    (incoming.call = "occupied" /\ IvSorted(incoming.tl) /\ IvPairwiseDisjoint(incoming.tl)) =>
        {incoming.found[i] : i \in DOMAIN incoming.found}
            = {incoming.tl[i] : i \in {j \in DOMAIN incoming.tl : Meet(incoming.tl[j], incoming.probe)}}

\* no interval of the timeline contains t or ends after t
FreeAt(tl, t) == \A i \in DOMAIN tl : IvIsEmpty(tl[i]) \/ ub(tl[i]) <= t

\* C29: on a sorted timeline of non-overlapping intervals Timeline::idle(t) is true
\* iff no stored interval contains t or ends after t: an interval that ends at t does
\* not make the worker busy at t, an interval that starts after t does
C29_IdleIffFree ==
    (incoming.call = "idle" /\ IvSorted(incoming.tl) /\ IvPairwiseDisjoint(incoming.tl)) =>
        (incoming.idle <=> FreeAt(incoming.tl, incoming.probe[1]))

\* the BatchStart breaks the scheduler contract for worker w: it has no job, more jobs
\* than w.batch_size, or its interval overlaps an interval of w's timeline
BreaksContract(bs, w) ==
    \/ bs.jobs = <<>>
    \/ Len(bs.jobs) > w.batch_size
    \/ \E i \in DOMAIN w.timeline : Meet(w.timeline[i], <<bs.when, MaxLength(bs.jobs)>>)

\* C30: a BatchStart that breaks the scheduler contract aborts the run and is not
\* placed on the timeline
C30_BadBatchStartRejected ==
    [][(Handling("WorkerController::on_batch_start")
          /\ BreaksContract(Head(bus).m, workers[Head(bus).m.which + 1]))
         => (panicked' /\ workers' = workers)]_vars

\* an IncomingJobs or a BatchDone event has been handled under FIFO
FifoHandled ==
    /\ scheduler.type = "FIFO" /\ EventBoundary
    /\ processed_events # <<>>
    /\ Last(processed_events).message.kind \in {"IncomingJobs", "BatchDone"}

BatchesTakeTime == \A k \in DOMAIN emitted : MaxLength(emitted[k].jobs) > 0

WaitingArrivals ==
    (IF incoming.peek = "item" THEN {incoming.t} ELSE {})
    \cup {bus[i].time : i \in {n \in DOMAIN bus :
                                  bus[n].h = "new_event" /\ bus[n].m.kind = "IncomingJobs"}}
    \cup {future_events[i].time : i \in {n \in DOMAIN future_events :
                                  future_events[n].message.kind = "IncomingJobs"}}

\* C31: the stream is pulled lazily, yet when a BatchDone event is handled every
\* arrival with an earlier time has been enqueued and handled before it: no arrival
\* that is still waiting is earlier than a handled BatchDone, and the IncomingJobs
\* events earlier than it precede it in processed_events
C31_ArrivalsBeforeCompletion ==
    \A k \in DOMAIN processed_events :
        processed_events[k].message.kind = "BatchDone" =>
            /\ \A t \in WaitingArrivals : t >= processed_events[k].time
            /\ \A l \in DOMAIN processed_events :
                  (processed_events[l].message.kind = "IncomingJobs"
                     /\ processed_events[l].time < processed_events[k].time) => l < k

\* an arrival released while a batch was running was handled before the BatchDone of
\* that batch
C31_Witness ==
    \E k, l \in DOMAIN processed_events :
        /\ l < k
        /\ processed_events[k].message.kind = "BatchDone"
        /\ processed_events[l].message.kind = "IncomingJobs"
        /\ lb(processed_events[k].message.batch.interval) < processed_events[l].time
        /\ processed_events[l].time < processed_events[k].time

\* C32: for every RandomVariable, with any Transformation of factor >= 0,
\* quantile(0) = min(), quantile(1) = max(), and quantile(p) <= quantile(q) when p <= q
C32_QuantileEndpoints ==
    incoming.min # <<>> /\ incoming.max # <<>> =>
        \A i, j \in DOMAIN incoming.quant :
            /\ incoming.quant[i][1] = 0 => incoming.quant[i][2] = incoming.min[1]
            /\ incoming.quant[i][1] = QSteps => incoming.quant[i][2] = incoming.max[1]
            /\ incoming.quant[i][1] <= incoming.quant[j][1]
                  => incoming.quant[i][2] <= incoming.quant[j][2]

\* the times of the BatchDone events that are queued
QueuedBatchDones ==
    {future_events[i].time : i \in {n \in DOMAIN future_events : future_events[n].state = "BatchDone"}}

\* C33: the poll that follows the handling of an event stops as soon as the next
\* arrival is later than the earliest queued BatchDone: of the arrivals it has pulled,
\* every one but the last is not later than a queued BatchDone
C33_PollStops ==
    pc = "poll" =>
        \A i \in 1..(Len(incoming.polled) - 1) :
            \E t \in QueuedBatchDones : incoming.polled[i] <= t

\* C34: each worker alternates Idle -BatchStart-> Busy -BatchDone-> Idle: a BatchStart
\* is handled for a worker whose timeline is empty, puts its interval there and posts
\* its BatchDone; a BatchDone is handled for a worker whose timeline holds exactly the
\* interval of that batch and removes it; when the run ends every timeline is empty
C34_WorkerAlternates ==
    [][/\ (Handling("WorkerController::on_batch_start") /\ Head(bus).m.jobs # <<>>) =>
             LET w == Head(bus).m.which + 1
                 batch == BatchFrom(Head(bus).m)
             IN /\ workers[w].timeline = <<>>
                /\ workers'[w].timeline = <<batch.interval>>
                /\ \E i \in DOMAIN bus' :
                      /\ bus'[i].h = "new_event" /\ bus'[i].m.kind = "BatchDone"
                      /\ bus'[i].m.batch = batch
       /\ Handling("WorkerController::on_batch_done") =>
             LET w == Head(bus).m.batch.id + 1
             IN /\ workers[w].timeline = <<Head(bus).m.batch.interval>>
                /\ workers'[w].timeline = <<>>
       /\ (pc' = "done" /\ until.type = "NoEvents") =>
             \A w \in DOMAIN workers : workers'[w].timeline = <<>>
      ]_vars

SetOf(s) == {s[i] : i \in DOMAIN s}

\* the jobs of the PastDue events and of the BatchStart messages that the step posts
LeavingJobs ==
    UNION {SetOf(Posted[i].m.jobs) :
              i \in {n \in DOMAIN Posted : Posted[n].m.kind \in {"PastDue", "BatchStart"}}}

\* C35: pending_jobs changes only in the handlers of the scheduler controller: jobs
\* enter it only as the admitted jobs of the IncomingJobs message being handled, jobs
\* leave it only into a PastDue event or a BatchStart message of the same handler, and
\* the handling of a PastDue event, a BatchStart message, a worker or incoming wake-up
\* and the worker controller's part of a BatchDone leave it unchanged
C35_PendingFrame ==
    [][/\ pending_jobs' # pending_jobs =>
             \/ Handling("SchedulerController::on_wake_up")
             \/ Handling("SchedulerController::on_incoming_jobs")
             \/ Handling("SchedulerController::on_batch_done")
       /\ SetOf(pending_jobs') \ SetOf(pending_jobs) # {} =>
             /\ Handling("SchedulerController::on_incoming_jobs")
             /\ SetOf(pending_jobs') \ SetOf(pending_jobs)
                   \subseteq {AdmittedAt(Head(bus).m.jobs[i], time) : i \in DOMAIN Head(bus).m.jobs}
       /\ SetOf(pending_jobs) \ SetOf(pending_jobs') # {} =>
             SetOf(pending_jobs) \ SetOf(pending_jobs') \subseteq LeavingJobs
      ]_vars

\* the worker controller handles a BatchDone, and a PastDue event has been handled,
\* while jobs are pending
C35_Witness ==
    /\ Handling("WorkerController::on_batch_done")
    /\ pending_jobs # <<>>
    /\ \E k \in DOMAIN processed_events : processed_events[k].message.kind = "PastDue"

\* the intervals of a timeline that end after t
EndingAfter(tl, t) == {i \in DOMAIN tl : ub(tl[i]) > t}

\* C36: in every reachable state the timeline of each worker holds at most one
\* interval that ends after the clock, and none that starts after the clock: a worker
\* has neither two batches in flight nor a batch planned for the future
C36_OneBatchInFlight ==
    \A w \in DOMAIN workers :
        /\ Cardinality(EndingAfter(workers[w].timeline, time)) <= 1
        /\ \A i \in DOMAIN workers[w].timeline : lb(workers[w].timeline[i]) <= time

\* the jobs reported by the processed events: in the done or past_due of a BatchDone,
\* or in a PastDue event
ReportedIds ==
    UNION {LET m == processed_events[i].message
           IN IF m.kind = "PastDue" THEN SetOf(Ids(m.jobs))
              ELSE IF m.kind = "BatchDone"
              THEN SetOf(Ids(m.batch.done)) \cup SetOf(Ids(m.batch.past_due))
              ELSE {}
           : i \in DOMAIN processed_events}

\* Simulator::run has returned under NoEvents
RunEnded == pc = "done" /\ until.type = "NoEvents"

\* C37: with a finite stream, batch sizes >= 1 and NoEvents the run terminates (it is
\* not aborted), and when it has, pending_jobs is empty, every timeline is empty and
\* every admitted job has been reported in a BatchDone or in a PastDue event
C37_RunEndsClean ==
    /\ ~panicked
    /\ RunEnded =>
          /\ pending_jobs = <<>>
          /\ \A w \in DOMAIN workers : workers[w].timeline = <<>>
          /\ AdmittedIds \subseteq ReportedIds

\* the ids of the admitted jobs in admission order: by IncomingJobs event, then by
\* position in the event
AdmissionOrder ==
    Flatten([i \in DOMAIN processed_events |->
                IF processed_events[i].message.kind = "IncomingJobs"
                THEN Ids(processed_events[i].message.jobs) ELSE <<>>])

\* job a is ahead of job b in admission order
Ahead(a, b) ==
    \E i, j \in DOMAIN AdmissionOrder :
        i < j /\ AdmissionOrder[i] = a /\ AdmissionOrder[j] = b

\* C38: under FIFO jobs start in admission order: if job a is ahead of job b in
\* admission order and both are in batches, the batch of a starts no later than the
\* batch of b; and pending_jobs is always sorted by admission order
C38_FifoStartsInAdmissionOrder ==
    scheduler.type = "FIFO" =>
        /\ \A k, l \in DOMAIN emitted :
              \A i \in DOMAIN emitted[k].jobs : \A j \in DOMAIN emitted[l].jobs :
                  Ahead(emitted[k].jobs[i].id, emitted[l].jobs[j].id)
                      => emitted[k].when <= emitted[l].when
        /\ \A i, j \in DOMAIN pending_jobs :
              i < j => Ahead(pending_jobs[i].id, pending_jobs[j].id)

\* FIFO has started batches at two different times and two jobs are still pending
C38_Witness ==
    /\ scheduler.type = "FIFO"
    /\ \E k, l \in DOMAIN emitted : emitted[k].when < emitted[l].when
    /\ Len(pending_jobs) >= 2

\* the queue the policy of the running callback works on: pending_jobs, with the jobs
\* of the IncomingJobs message admitted behind it
PolicyQueue ==
    IF Handling("SchedulerController::on_incoming_jobs")
    THEN pending_jobs \o [i \in DOMAIN Head(bus).m.jobs |-> AdmittedAt(Head(bus).m.jobs[i], time)]
    ELSE pending_jobs

\* no job received so far has a budget, so no job of the run has a deadline
NoDeadlineSoFar ==
    \A i \in DOMAIN processed_events :
        \A k \in DOMAIN processed_events[i].message.jobs :
            "budget" \in DOMAIN processed_events[i].message.jobs[k]
                => processed_events[i].message.jobs[k].budget = None

\* C39: while no job of the run has a deadline the DeadlineAware policy (My) behaves
\* exactly as FIFO: from the state of any callback of a FIFO or a My run both policies
\* give the same BatchStart messages (worker, time and jobs, in order) and the same
\* pending_jobs, and that is what the callback emits and leaves
C39_MyIsFifoWithoutDeadlines ==
    [][(PolicyCallback /\ scheduler.type \in {"FIFO", "My"} /\ NoDeadlineSoFar) =>
          /\ My_next_batch(time, workers, PolicyQueue) = FIFO_next_batch(time, workers, PolicyQueue)
          /\ \A r \in FIFO_next_batch(time, workers, PolicyQueue) :
                r.starts = NewStarts /\ r.pending = pending_jobs'
      ]_vars

\* a My callback of a run without deadlines started a batch and left a job pending
C39_Witness ==
    /\ scheduler.type = "My" /\ NoDeadlineSoFar /\ EventBoundary
    /\ emitted # <<>> /\ pending_jobs # <<>>
    /\ Last(processed_events).message.kind = "BatchDone"
    /\ Last(emitted).when = time

====
